---- MODULE Spec2Model ----
(***************************************************************************)
(* CloudSnooze AWS test-resource cleanup Lambda                            *)
(* (scripts/aws_cleanup_lambda.py).                                        *)
(*                                                                         *)
(* The handler is a single-threaded straight-line procedure; the model     *)
(* follows it statement group by statement group (pc), with the EC2        *)
(* account, the process environment and the wall clock as its environment. *)
(* Every provider call of the handler (the instance query, the read of an  *)
(* instance's launch_time, the read of its tags, terminate()) either       *)
(* returns or raises; the choice is the environment's.  A terminate() that *)
(* raises is a rejected request: it leaves the instance's state alone.     *)
(* The query is one call: it raises before the first instance is yielded   *)
(* or it yields every matching instance.                                   *)
(*                                                                         *)
(* Time is in whole seconds.  Strings that are parsed (MAX_AGE_HOURS) are  *)
(* sequences of one-character strings; strings that are only compared      *)
(* (tag keys and values, lifecycle states) are TLA+ strings.  Instance     *)
(* identifiers are the integers 1..NumInstances.                           *)
(***************************************************************************)
EXTENDS Integers, Sequences, FiniteSets, TLC

(* ------------------------------ bounds --------------------------------- *)
NumInstances == 2      \* instances in the account
MaxTicks     == 1      \* seconds the wall clock may advance in a behaviour

(* ------------------------- program constants --------------------------- *)
DEFAULT_MAX_AGE_HOURS == 2
DEFAULT_TAG_KEY       == "Purpose"
DEFAULT_TAG_VALUE     == "Testing"
SecondsPerHour        == 3600

\* Variant: the filter also lets instances through that are shutting down.
FilterStatesShuttingDown ==
    {"pending", "running", "stopping", "stopped", "shutting-down"}

\* The 'instance-state-name' values of the query filter.
FilterStates == {"pending", "running", "stopping", "stopped"}

(* ---------------------------- Python values ---------------------------- *)
PyInt(n) == [type |-> "int", val |-> n]
PyStr(s) == [type |-> "str", val |-> s]

Digits == {"0", "1", "2", "3", "4", "5", "6", "7", "8", "9"}

DigitVal(c) ==
    CASE c = "0" -> 0 [] c = "1" -> 1 [] c = "2" -> 2 [] c = "3" -> 3
      [] c = "4" -> 4 [] c = "5" -> 5 [] c = "6" -> 6 [] c = "7" -> 7
      [] c = "8" -> 8 [] c = "9" -> 9

RECURSIVE DecimalValue(_)
DecimalValue(s) ==
    IF s = <<>> THEN 0
    ELSE 10 * DecimalValue(SubSeq(s, 1, Len(s) - 1)) + DigitVal(s[Len(s)])

\* The digits of an integer literal: the string without its optional sign.
Unsigned(s) == IF s # <<>> /\ s[1] \in {"+", "-"} THEN Tail(s) ELSE s

\* int(v) returns: v is an int already, or a string holding an optional
\* sign and at least one decimal digit.  Otherwise int(v) raises ValueError.
IntParses(v) ==
    \/ v.type = "int"
    \/ /\ v.type = "str"
       /\ Unsigned(v.val) # <<>>
       /\ \A k \in 1..Len(Unsigned(v.val)) : Unsigned(v.val)[k] \in Digits

int(v) ==
    IF v.type = "int" THEN v.val
    ELSE IF v.val[1] = "-" THEN 0 - DecimalValue(Unsigned(v.val))
    ELSE DecimalValue(Unsigned(v.val))

(* ----------------------------- environment ----------------------------- *)
\* Values MAX_AGE_HOURS takes when it is set.
MaxAgeStrings == {<<"1">>, <<"2", "h">>}

\* os.environ: a mapping defined on the variables that are set.  Nothing is
\* set, or MAX_AGE_HOURS is, or MAX_AGE_HOURS and TAG_KEY are.
Environments ==
    {<<>>}
      \cup {[MAX_AGE_HOURS |-> s] : s \in MaxAgeStrings}
      \cup {[MAX_AGE_HOURS |-> <<"0">>, TAG_KEY |-> "Owner"]}

\* Tag sets an instance may carry (instance.tags is None for the empty one).
DefaultTags == {[Key |-> "Purpose", Value |-> "Testing"]}

OtherTags ==
    {[Key |-> "Purpose", Value |-> "Production"],
     [Key |-> "Owner",   Value |-> "Testing"]}

\* The clock starts 2h+1s after the oldest launch instant, 0; the other
\* launch instants are 1 (2h before) and SecondsPerHour + 1 (1h before).
InitialClock == 2 * SecondsPerHour + 1

InstanceIds == 1..NumInstances

Instance(tags, state, launch_time) ==
    [tags |-> tags, state |-> state, launch_time |-> launch_time]

\* What one instance may be: an instance with the default tag in each state
\* the filter lets through, launched 2h+1s, 2h or 1h before InitialClock; an
\* instance without tags or with other tags; an instance with the default tag
\* that is shutting down or terminated.
InstanceKinds ==
    << Instance(DefaultTags, "running", 0),
       Instance(DefaultTags, "pending", 1),
       Instance(DefaultTags, "stopping", SecondsPerHour + 1),
       Instance(DefaultTags, "stopped", 1),
       Instance({}, "running", 0),
       Instance(OtherTags, "running", 0),
       Instance(DefaultTags, "shutting-down", 0),
       Instance(DefaultTags, "terminated", 0) >>

\* The accounts.  Identifiers are labels and the query returns the instances
\* in any order, so an account is taken once for all the ways of numbering
\* its instances: kinds are assigned in the order of InstanceKinds.
Accounts ==
    {[i \in InstanceIds |-> InstanceKinds[f[i]]] :
        f \in {g \in [InstanceIds -> 1..Len(InstanceKinds)] :
                  \A i, j \in InstanceIds : i < j => g[i] <= g[j]}}

(* -------------------------------- state -------------------------------- *)
VARIABLES
    environ,          \* os.environ
    ec2,              \* the account: instance id -> tags, state, launch_time
    clock,            \* the wall clock (UTC seconds)
    pc,               \* position of the handler
    max_age_seconds,  \* local of lambda_handler
    current_time,     \* local of lambda_handler
    tag_key,          \* local of lambda_handler
    tag_value,        \* local of lambda_handler
    results,          \* local of lambda_handler
    instances,        \* the query's result, in the order it is iterated
    idx,              \* position of the for loop in instances
    age_seconds,      \* local of the loop body
    returned,         \* what the caller received from the last invocation
    calls,            \* provider calls of this invocation, in order
    snapshot,         \* the account as the query of this invocation saw it
    invoked_at,       \* the wall clock when this invocation read it
    previous          \* what the invocation before this one did

vars == <<environ, ec2, clock, pc, max_age_seconds, current_time,
          tag_key, tag_value, results, instances, idx, age_seconds, returned,
          calls, snapshot, invoked_at, previous>>

locals == <<max_age_seconds, current_time, tag_key, tag_value>>
world  == <<environ, ec2, clock>>

NoResult == <<>>

(* ------------------------------- helpers ------------------------------- *)
get_env_var(name, default) ==
    IF name \in DOMAIN environ THEN PyStr(environ[name]) ELSE default

\* Variant: the tag filter looks at the key only.
MatchesKeyOnly(inst, key, value) ==
    /\ \E t \in inst.tags : t.Key = key
    /\ inst.state \in FilterStates

\* The two filters of ec2.instances.filter(...), on one instance.
Matches(inst, key, value) ==
    /\ \E t \in inst.tags : t.Key = key /\ t.Value = value
    /\ inst.state \in FilterStates

Matching(account, key, value) ==
    {i \in DOMAIN account : Matches(account[i], key, value)}

\* Every order in which the provider may return a set of instances.
Orderings(S) ==
    {s \in [1..Cardinality(S) -> S] :
        \A j, k \in 1..Cardinality(S) : j # k => s[j] # s[k]}

\* Variant: the age is taken against the clock at the time of the read.
AgeAtRead(now, launch_time) == clock - launch_time

\* (current_time - launch_time).total_seconds()
Age(now, launch_time) == now - launch_time

\* Variants: an inclusive comparison; a comparison an hour too lenient.
AgeReaches(age, max_age) == age >= max_age
AgeExceedsByAnHour(age, max_age) == age > max_age + SecondsPerHour

\* age_seconds > max_age_seconds
AgeExceeds(age, max_age) == age > max_age

Call(op, id, ok) == [op |-> op, id |-> id, ok |-> ok]

InstanceError(id, detail) == [scope |-> "instance", id |-> id, detail |-> detail]
BatchError(detail)        == [scope |-> "ec2", id |-> 0, detail |-> detail]

Range(s) == {s[k] : k \in 1..Len(s)}

instance == instances[idx]

\* The for loop moves to the next instance, or ends.
NextInstance ==
    /\ idx' = idx + 1
    /\ pc' = IF idx + 1 > Len(instances) THEN "summary" ELSE "launch_time"

(* ------------------------------- actions ------------------------------- *)
Init ==
    /\ environ \in Environments
    /\ ec2 \in Accounts
    /\ clock = InitialClock
    /\ pc = "idle"
    /\ max_age_seconds = 0
    /\ current_time = 0
    /\ tag_key = ""
    /\ tag_value = ""
    /\ results = [terminated_instances |-> <<>>, errors |-> <<>>]
    /\ instances = <<>>
    /\ idx = 0
    /\ age_seconds = 0
    /\ returned = NoResult
    /\ calls = <<>>
    /\ snapshot = ec2
    /\ invoked_at = 0
    /\ previous = [terminated_instances |-> <<>>, requested |-> {},
                   returned |-> FALSE]

\* The wall clock advances by a second.  The handler reads the clock at line 36
\* only, so the instants that matter are those between two iterations of the
\* loop and those between two invocations.
Tick ==
    /\ clock < InitialClock + MaxTicks
    /\ pc \in {"returned", "launch_time"}
    /\ clock' = clock + 1
    /\ UNCHANGED <<environ, ec2, pc, locals, results, instances, idx,
                   age_seconds, returned, calls, snapshot, invoked_at, previous>>

\* What an invocation leaves behind for the one after it.
Carry ==
    [terminated_instances |-> results.terminated_instances,
     requested |-> {calls[k].id : k \in {j \in 1..Len(calls) :
                                           calls[j].op = "terminate"}},
     returned |-> pc = "returned"]

\* Lines 31-44 when int() returns.
Invoke ==
    /\ pc \in {"idle", "returned", "raised"}
    /\ IntParses(get_env_var("MAX_AGE_HOURS", PyInt(DEFAULT_MAX_AGE_HOURS)))
    /\ max_age_seconds' =
         int(get_env_var("MAX_AGE_HOURS", PyInt(DEFAULT_MAX_AGE_HOURS)))
           * SecondsPerHour
    /\ tag_key' = get_env_var("TAG_KEY", PyStr(DEFAULT_TAG_KEY)).val
    /\ tag_value' = get_env_var("TAG_VALUE", PyStr(DEFAULT_TAG_VALUE)).val
    /\ current_time' = clock
    /\ invoked_at' = clock
    /\ results' = [terminated_instances |-> <<>>, errors |-> <<>>]
    /\ instances' = <<>>
    /\ idx' = 0
    /\ age_seconds' = 0
    /\ returned' = NoResult
    /\ calls' = <<>>
    /\ snapshot' = ec2
    /\ previous' = Carry
    /\ pc' = "query"
    /\ UNCHANGED world

\* Line 31 when int() raises ValueError: nothing catches it.
InvokeRaises ==
    /\ pc \in {"idle", "returned", "raised"}
    /\ ~IntParses(get_env_var("MAX_AGE_HOURS", PyInt(DEFAULT_MAX_AGE_HOURS)))
    /\ results' = [terminated_instances |-> <<>>, errors |-> <<>>]
    /\ instances' = <<>>
    /\ idx' = 0
    /\ age_seconds' = 0
    /\ returned' = NoResult
    /\ calls' = <<>>
    /\ snapshot' = ec2
    /\ previous' = Carry
    /\ pc' = "raised"
    /\ UNCHANGED <<world, locals, invoked_at>>

\* Lines 48-59: the query returns the matching instances in some order.
Query ==
    /\ pc = "query"
    /\ \E order \in Orderings(Matching(ec2, tag_key, tag_value)) :
         /\ instances' = order
         /\ idx' = 1
         /\ pc' = IF Len(order) = 0 THEN "summary" ELSE "launch_time"
    /\ calls' = Append(calls, Call("query", 0, TRUE))
    /\ snapshot' = ec2
    /\ UNCHANGED <<world, locals, results, age_seconds, returned,
                   invoked_at, previous>>

\* Variant: the failed query is swallowed without an entry in errors.
QueryRaisesSilently ==
    /\ pc = "query"
    /\ calls' = Append(calls, Call("query", 0, FALSE))
    /\ pc' = "summary"
    /\ snapshot' = ec2
    /\ UNCHANGED <<world, locals, results, instances, idx, age_seconds,
                   returned, invoked_at, previous>>

\* Lines 48-59 raise; lines 85-88 catch.
QueryRaises ==
    /\ pc = "query"
    /\ calls' = Append(calls, Call("query", 0, FALSE))
    /\ results' = [results EXCEPT !.errors = Append(@, BatchError("query"))]
    /\ pc' = "summary"
    /\ snapshot' = ec2
    /\ UNCHANGED <<world, locals, instances, idx, age_seconds, returned,
                   invoked_at, previous>>

\* Variant: the handler of the loop body ends the loop.
InstanceExceptAborts(detail) ==
    /\ results' = [results EXCEPT
                     !.errors = Append(@, InstanceError(instances[idx], detail))]
    /\ idx' = idx
    /\ pc' = "summary"

\* Lines 80-83: the handler of the loop body.
InstanceExcept(detail) ==
    /\ results' = [results EXCEPT
                     !.errors = Append(@, InstanceError(instance, detail))]
    /\ NextInstance

\* Lines 62-65 and 79: the launch time is read and the age compared.
ReadLaunchTime ==
    /\ pc = "launch_time"
    /\ calls' = Append(calls, Call("launch_time", instance, TRUE))
    /\ age_seconds' = Age(current_time, ec2[instance].launch_time)
    /\ IF AgeExceeds(Age(current_time, ec2[instance].launch_time), max_age_seconds)
         THEN pc' = "tags" /\ idx' = idx
         ELSE NextInstance
    /\ UNCHANGED <<world, locals, results, instances, returned, snapshot,
                   invoked_at, previous>>

\* Lines 62-63 raise.
ReadLaunchTimeRaises ==
    /\ pc = "launch_time"
    /\ calls' = Append(calls, Call("launch_time", instance, FALSE))
    /\ InstanceExcept("launch_time")
    /\ UNCHANGED <<world, locals, instances, age_seconds, returned,
                   snapshot, invoked_at, previous>>

\* Lines 66-71: the tags are read for the log line.
ReadTags ==
    /\ pc = "tags"
    /\ calls' = Append(calls, Call("tags", instance, TRUE))
    /\ pc' = "terminate"
    /\ UNCHANGED <<world, locals, results, instances, idx, age_seconds,
                   returned, snapshot, invoked_at, previous>>

\* Line 70 raises.
ReadTagsRaises ==
    /\ pc = "tags"
    /\ calls' = Append(calls, Call("tags", instance, FALSE))
    /\ InstanceExcept("tags")
    /\ UNCHANGED <<world, locals, instances, age_seconds, returned,
                   snapshot, invoked_at, previous>>

\* Line 74: the provider accepts the request; the instance starts to shut down.
Terminate ==
    /\ pc = "terminate"
    /\ calls' = Append(calls, Call("terminate", instance, TRUE))
    /\ ec2' = [ec2 EXCEPT ![instance].state = "shutting-down"]
    /\ pc' = "append"
    /\ UNCHANGED <<environ, clock, locals, results, instances, idx,
                   age_seconds, returned, snapshot, invoked_at, previous>>

\* Variant: nothing catches the exception of terminate().
TerminateRaisesUncaught ==
    /\ pc = "terminate"
    /\ calls' = Append(calls, Call("terminate", instances[idx], FALSE))
    /\ pc' = "raised"
    /\ UNCHANGED <<world, locals, results, instances, idx, age_seconds,
                   returned, snapshot, invoked_at, previous>>

\* Variant: the identifier is recorded although terminate() raised.
TerminateRaisesRecorded ==
    /\ pc = "terminate"
    /\ calls' = Append(calls, Call("terminate", instances[idx], FALSE))
    /\ results' = [results EXCEPT
                     !.terminated_instances = Append(@, instances[idx]),
                     !.errors = Append(@, InstanceError(instances[idx],
                                                        "terminate"))]
    /\ idx' = idx + 1
    /\ pc' = IF idx + 1 > Len(instances) THEN "summary" ELSE "launch_time"
    /\ UNCHANGED <<world, locals, instances, age_seconds, returned,
                   snapshot, invoked_at, previous>>

\* Line 74 raises.
TerminateRaises ==
    /\ pc = "terminate"
    /\ calls' = Append(calls, Call("terminate", instance, FALSE))
    /\ InstanceExcept("terminate")
    /\ UNCHANGED <<world, locals, instances, age_seconds, returned,
                   snapshot, invoked_at, previous>>

\* Variant: the identifier is put at the front of the list.
RecordTerminatedFirst ==
    /\ pc = "append"
    /\ results' = [results EXCEPT
                     !.terminated_instances = <<instances[idx]>> \o @]
    /\ idx' = idx + 1
    /\ pc' = IF idx + 1 > Len(instances) THEN "summary" ELSE "launch_time"
    /\ UNCHANGED <<world, locals, instances, age_seconds, returned, calls,
                   snapshot, invoked_at, previous>>

\* Lines 75-77.
RecordTerminated ==
    /\ pc = "append"
    /\ results' = [results EXCEPT
                     !.terminated_instances = Append(@, instance)]
    /\ NextInstance
    /\ UNCHANGED <<world, locals, instances, age_seconds, returned, calls,
                   snapshot, invoked_at, previous>>

\* Lines 91-93.
Return ==
    /\ pc = "summary"
    /\ returned' = results
    /\ pc' = "returned"
    /\ UNCHANGED <<world, locals, results, instances, idx, age_seconds,
                   calls, snapshot, invoked_at, previous>>

Next ==
    \/ Tick
    \/ Invoke
    \/ InvokeRaises
    \/ Query
    \/ QueryRaises
    \/ ReadLaunchTime
    \/ ReadLaunchTimeRaises
    \/ ReadTags
    \/ ReadTagsRaises
    \/ Terminate
    \/ TerminateRaises
    \/ RecordTerminated
    \/ Return

Spec == Init /\ [][Next]_vars

TypeOK ==
    /\ pc \in {"idle", "query", "launch_time", "tags", "terminate", "append",
               "summary", "returned", "raised"}
    /\ clock \in InitialClock..(InitialClock + MaxTicks)

(* ------------------------ vocabulary of the claims --------------------- *)
Running == pc \in {"query", "launch_time", "tags", "terminate", "append",
                   "summary"}
Done    == pc = "returned"

\* The steps of the handler, without the clock.
Step ==
    \/ Query \/ QueryRaises \/ ReadLaunchTime \/ ReadLaunchTimeRaises
    \/ ReadTags \/ ReadTagsRaises \/ Terminate \/ TerminateRaises
    \/ RecordTerminated \/ Return

CallsOf(i, op)   == {k \in 1..Len(calls) : calls[k].id = i /\ calls[k].op = op}
Requests(i)      == Cardinality(CallsOf(i, "terminate"))
Accepted(i)      == \E k \in CallsOf(i, "terminate") : calls[k].ok
Rejected(i)      == \E k \in CallsOf(i, "terminate") : ~calls[k].ok
Touched(i)       == \E k \in 1..Len(calls) : calls[k].id = i
Failed(i)        == \E k \in 1..Len(calls) : calls[k].id = i /\ ~calls[k].ok
LaunchTimeRead(i) == \E k \in CallsOf(i, "launch_time") : calls[k].ok
QueryFailed      == \E k \in 1..Len(calls) : calls[k].op = "query" /\ ~calls[k].ok
QuerySucceeded   == \E k \in 1..Len(calls) : calls[k].op = "query" /\ calls[k].ok

Terminated       == Range(results.terminated_instances)
ErrorsOf(i)      == {k \in 1..Len(results.errors) :
                        /\ results.errors[k].scope = "instance"
                        /\ results.errors[k].id = i}
Found            == Range(instances)

\* age_seconds of instance i in this invocation, and its comparison.
AgeOf(i) == current_time - ec2[i].launch_time
Old(i)   == AgeOf(i) > max_age_seconds

\* The handler went past the comparison of line 65 into the if branch for i.
Chosen(i) ==
    \/ pc \in {"tags", "terminate", "append"} /\ instances[idx] = i
    \/ CallsOf(i, "tags") # {}

Position(i) == CHOOSE k \in 1..Len(instances) : instances[k] = i

IsPrefix(s, t) == Len(s) <= Len(t) /\ SubSeq(t, 1, Len(s)) = s

MaxAgeArg == get_env_var("MAX_AGE_HOURS", PyInt(DEFAULT_MAX_AGE_HOURS))

(* -------------------------------- C1 ----------------------------------- *)
\* C1: whatever the provider calls do, the handler keeps going until it
\* returns a mapping with exactly the keys terminated_instances and errors;
\* an exception reaches the caller only when MAX_AGE_HOURS does not parse as
\* an integer, and then it always does.
C1_ReturnsNormally ==
    /\ pc = "raised" => ~IntParses(MaxAgeArg)
    /\ pc # "idle" /\ ~IntParses(MaxAgeArg) => pc = "raised"
    /\ Running => ENABLED Step
    /\ Done => /\ DOMAIN returned = {"terminated_instances", "errors"}
               /\ returned = results

\* An invocation returned although a launch-time read and a terminate call
\* raised in it.
C1_Witness ==
    /\ Done
    /\ \E i \in Found : Rejected(i)
    /\ \E i \in Found : Failed(i) /\ ~LaunchTimeRead(i)

(* -------------------------------- C2 ----------------------------------- *)
\* C2 as stated: at the return, every instance the query returned whose age,
\* as the handler computed it, exceeds max_age_seconds is in
\* terminated_instances and received exactly one termination request.
C2_Original ==
    Done => \A i \in Found :
                LaunchTimeRead(i) /\ Old(i) =>
                    i \in Terminated /\ Requests(i) = 1

\* C2 amended: at the return, an instance the query returned whose age exceeds
\* max_age_seconds and none of whose calls raised is in terminated_instances
\* once and received exactly one termination request; if one of its calls
\* raised, it is not in terminated_instances, it has exactly one entry in
\* errors and it received at most one termination request.
C2_Amended ==
    Done => \A i \in Found :
                Old(i) =>
                    IF Failed(i)
                    THEN /\ i \notin Terminated
                         /\ Cardinality(ErrorsOf(i)) = 1
                         /\ Requests(i) <= 1
                    ELSE /\ Cardinality({k \in 1..Len(results.terminated_instances) :
                                results.terminated_instances[k] = i}) = 1
                         /\ Requests(i) = 1

\* An invocation returned having terminated one old instance and having
\* failed on another.
C2_Witness ==
    /\ Done
    /\ \E i \in Found : Old(i) /\ ~Failed(i) /\ i \in Terminated
    /\ \E i \in Found : Old(i) /\ Failed(i)

(* -------------------------------- C3 ----------------------------------- *)
\* C3: at every point of an invocation, an instance the query returned whose
\* age is at most max_age_seconds has received no termination request and is
\* not in terminated_instances.
C3_YoungUntouched ==
    \A i \in Found :
        AgeOf(i) <= max_age_seconds => Requests(i) = 0 /\ i \notin Terminated

\* An invocation returned after reading the launch time of an instance whose
\* age equals the threshold.
C3_Witness ==
    /\ Done
    /\ \E i \in Found : LaunchTimeRead(i) /\ AgeOf(i) = max_age_seconds

(* -------------------------------- C4 ----------------------------------- *)
\* C4: when the query raises, no instance is processed, terminated_instances
\* stays empty, errors gets exactly one entry, and the handler goes on to
\* return that summary.
C4_QueryFailure ==
    QueryFailed =>
        /\ pc \in {"summary", "returned"}
        /\ Len(calls) = 1
        /\ instances = <<>>
        /\ results.terminated_instances = <<>>
        /\ Len(results.errors) = 1
        /\ Done => returned = results

\* An invocation returned after a failed query although an instance of the
\* account matched the filter and was old enough.
C4_Witness ==
    /\ Done
    /\ QueryFailed
    /\ \E i \in Matching(ec2, tag_key, tag_value) : Old(i)

(* -------------------------------- C5 ----------------------------------- *)
\* C5: at the return after a successful query, every instance the query
\* returned had its launch time read exactly once, is in terminated_instances
\* exactly when it is old and none of its own calls raised, and has one entry
\* in errors exactly when one of its own calls raised (none otherwise); errors
\* holds nothing else.
C5_Isolation ==
    Done /\ QuerySucceeded =>
        /\ \A i \in Found :
              /\ Cardinality(CallsOf(i, "launch_time")) = 1
              /\ i \in Terminated <=> Old(i) /\ ~Failed(i)
              /\ Cardinality(ErrorsOf(i)) = IF Failed(i) THEN 1 ELSE 0
        /\ Len(results.errors) = Cardinality({i \in Found : Failed(i)})

\* An invocation returned in which an instance failed and a later one was
\* terminated.
C5_Witness ==
    /\ Done
    /\ \E i, j \in Found :
          /\ Position(i) < Position(j)
          /\ Failed(i)
          /\ j \in Terminated

(* -------------------------------- C6 ----------------------------------- *)
\* C6 as stated: when an invocation returns right after another one returned
\* (no time has passed), its terminated_instances is empty and no instance
\* received a termination request in both.
C6_Original ==
    Done /\ previous.returned /\ clock = InitialClock =>
        /\ results.terminated_instances = <<>>
        /\ \A i \in previous.requested : Requests(i) = 0

\* C6 amended: an instance in the terminated_instances of an invocation is
\* not returned by the query of the next invocation, receives no termination
\* request in it and is not in its terminated_instances.
C6_Amended ==
    previous.returned =>
        \A i \in Range(previous.terminated_instances) :
            /\ i \notin Found
            /\ Requests(i) = 0
            /\ i \notin Terminated

\* A second invocation returned after a successful query, the first one
\* having terminated an instance.
C6_Witness ==
    /\ Done
    /\ QuerySucceeded
    /\ previous.returned
    /\ previous.terminated_instances # <<>>

(* -------------------------------- C7 ----------------------------------- *)
\* C7: at every point, every identifier in terminated_instances (and in the
\* returned summary) is of an instance whose terminate call of this
\* invocation returned without raising; none is of an instance whose
\* terminate call raised.
C7_OnlyAccepted ==
    /\ \A i \in Terminated : Accepted(i) /\ ~Rejected(i)
    /\ Done => \A i \in Range(returned.terminated_instances) :
                   Accepted(i) /\ ~Rejected(i)

\* An invocation returned with one instance terminated and the terminate call
\* of another one rejected.
C7_Witness ==
    /\ Done
    /\ Terminated # {}
    /\ \E i \in Found : Rejected(i)

(* -------------------------------- C8 ----------------------------------- *)
\* C8: an instance that, when the invocation queried, did not carry the tag
\* tag_key = tag_value or was in state terminated is not in the query's
\* result, is the subject of no provider call, and is in neither
\* terminated_instances nor errors.
Excluded(inst) ==
    \/ ~(\E t \in inst.tags : t.Key = tag_key /\ t.Value = tag_value)
    \/ inst.state = "terminated"

C8_FilterExcludes ==
    \A i \in InstanceIds :
        Excluded(snapshot[i]) =>
            /\ i \notin Found
            /\ ~Touched(i)
            /\ i \notin Terminated
            /\ ErrorsOf(i) = {}

\* An invocation returned having terminated an instance, while the account
\* holds an instance that carries the key with another value.
C8_Witness ==
    /\ Done
    /\ Terminated # {}
    /\ \E i \in InstanceIds :
          /\ \E t \in snapshot[i].tags : t.Key = tag_key /\ t.Value # tag_value
          /\ ~(\E t \in snapshot[i].tags : t.Key = tag_key /\ t.Value = tag_value)
          /\ snapshot[i].state \in FilterStates

(* -------------------------------- C9 ----------------------------------- *)
\* C9: the provider calls on instances follow the order of the query's
\* result, one instance after the other; termination requests are issued in
\* that order, at most one per instance; terminated_instances lists
\* identifiers of the result in that order without repetition, and within an
\* invocation it only grows at its end.
C9_Order ==
    /\ \A k \in 2..Len(calls) : calls[k].id \in Found
    /\ \A k \in 2..(Len(calls) - 1) :
          /\ Position(calls[k].id) <= Position(calls[k + 1].id)
          /\ calls[k].op = "terminate"
                => Position(calls[k].id) < Position(calls[k + 1].id)
    /\ Terminated \subseteq Found
    /\ \A k \in 1..(Len(results.terminated_instances) - 1) :
          Position(results.terminated_instances[k])
            < Position(results.terminated_instances[k + 1])

\* A step that is not the start of an invocation.
SameInvocation == Running \/ pc' \notin {"query", "raised"}

C9_AppendOnly ==
    SameInvocation =>
        IsPrefix(results.terminated_instances, results'.terminated_instances)

C9_Sequential == [][C9_Order' /\ C9_AppendOnly]_vars

\* An invocation returned having terminated two instances that the query
\* returned in the order opposite to their identifiers.
C9_Witness ==
    /\ Done
    /\ Len(results.terminated_instances) >= 2
    /\ instances[1] > instances[2]

(* -------------------------------- C10 ---------------------------------- *)
\* C10: during an invocation current_time is the clock value read when the
\* invocation started, and an instance whose launch time was read enters the
\* terminating branch exactly when that start instant minus its launch time
\* exceeds max_age_seconds, however far the clock has moved since.
C10_FixedCurrentTime ==
    (Running \/ Done) =>
        /\ current_time = invoked_at
        /\ \A i \in Found :
              LaunchTimeRead(i) =>
                  (Chosen(i) <=>
                      invoked_at - ec2[i].launch_time > max_age_seconds)

\* The loop ended on an instance that was skipped at exactly the threshold
\* although the clock had moved on before its launch time was read.
C10_Witness ==
    /\ pc = "summary"
    /\ clock > invoked_at
    /\ Len(instances) >= 1
    /\ calls[Len(calls)] = Call("launch_time", instances[Len(instances)], TRUE)
    /\ invoked_at - ec2[instances[Len(instances)]].launch_time = max_age_seconds
    /\ clock - ec2[instances[Len(instances)]].launch_time > max_age_seconds
====
